---- MODULE Spec2Model ----
(***************************************************************************)
(* Model of src/sources/game.c: the loop driver (StartGame / RunGame /      *)
(* EndGame), the input handler (InputGame) and the per-frame render         *)
(* pipeline, together with the recursive tree generator it invokes.         *)
(*                                                                          *)
(* Units.  Time is counted in ticks of 1/TargetFPS second (one frame at the *)
(* capped rate).  The branch angle and the camera offset are floats in the  *)
(* source; here they are fixed-point numbers in units of 1/TargetFPS degree *)
(* and 1/TargetFPS pixel, so that  rate * GetFrameTime()  is the integer    *)
(* rate * ticks  with no rounding.  Zoom is counted in tenths.              *)
(***************************************************************************)
EXTENDS Integers, Sequences, FiniteSets, TLC

VARIABLES
    pc,          \* the next call the program performs
    game,        \* the s_game aggregate
    window,      \* "none" | "open" | "closed"
    created,     \* per resource: how many times it was created
    released,    \* per resource: how many times it was released
    targetFPS,   \* the frame-rate cap (0: none set)
    target,      \* bound render destination: "none" | "texture" | "screen"
    cameraOn,    \* between BeginMode2D and EndMode2D
    shaderOn,    \* between BeginShaderMode and EndShaderMode
    mstack,      \* rlgl's transform stack; its last element is the current transform
    calls,       \* the library calls issued so far in the current frame
    tests,       \* evaluations of the loop condition so far
    polls,       \* InputGame calls so far
    frames,      \* frames presented (EndDrawing calls) so far
    keys,        \* the keys held at the last poll
    dt,          \* GetFrameTime() at the last poll, in ticks
    before,      \* [offset, angle] as they were when the last poll began
    upSum,       \* ticks of the polls that had UP held
    downSum,     \* ticks of the polls that had DOWN held and UP not held
    onlyUp,      \* every poll so far had exactly UP held
    delta,       \* the handler's moveVector at the last poll
    cstack,      \* the activation records of RecursiveTreeDraw, innermost last
    threshold,   \* the tree generator's termination length
    segments,    \* line segments drawn in the current frame
    frameStart,  \* mstack as it was when the current frame began
    texture      \* size of the off-screen colour buffer, <<0, 0>> before it is loaded

vars == <<pc, game, window, created, released, targetFPS, target, cameraOn,
          shaderOn, mstack, calls, tests, polls, frames, keys, dt, before,
          upSum, downSum, onlyUp, delta, cstack, threshold, segments, frameStart,
          texture>>

renderVars == <<target, cameraOn, shaderOn, mstack, calls, segments, frameStart>>
inputVars == <<keys, dt, before, upSum, downSum, onlyUp, delta>>
resVars == <<window, created, released, targetFPS, texture>>
countVars == <<tests, polls, frames>>
treeVars == <<cstack, threshold>>

----------------------------------------------------------------------------
(* Program constants *)

TargetFPS == 60
InitialAngle == 30
StartLength == 350
ZoomTenths == 5
CameraSpeed == 10
AngleRate == 10

(* Constants of the tree generator (tree.h) *)
LenScale == 100
ShrinkNum == 3
ShrinkDen == 4
Threshold == 4

(* Bounds of the model *)
MaxFrames == 2
MaxPolls == 2
LongStall == 200
MaxLen == 6
MaxThreshold == 2

----------------------------------------------------------------------------
(* Values *)

Resources == {"window", "shader", "framebuffer"}
Keys == {"D", "A", "S", "W", "UP", "DOWN"}
HalfSecond == TargetFPS \div 2
FrameTimes == {0, 1, HalfSecond, LongStall}
DefaultWindow == <<800, 600>>
WindowSizes == {DefaultWindow, <<1280, 720>>}

Fixed(x) == x * TargetFPS

Identity == <<>>
Top(s) == s[Len(s)]
SetTop(s, m) == [s EXCEPT ![Len(s)] = m]
Mult(s, op) == SetTop(s, Append(Top(s), op))

rlPushMatrix(s) == Append(s, Top(s))
rlPopMatrix(s) == IF Len(s) > 1 THEN SubSeq(s, 1, Len(s) - 1) ELSE s
rlTranslatef(s, x, y) == Mult(s, <<"T", x, y>>)
rlRotatef(s, a) == Mult(s, <<"R", a>>)

Vector2Scale(v, s) == <<v[1] * s, v[2] * s>>
Vector2Add(a, b) == <<a[1] + b[1], a[2] + b[2]>>

----------------------------------------------------------------------------
(* Initial state: the aggregate as its owner constructs it, nothing started *)

InitGame ==
    game \in {[window_size |-> ws, title |-> "title",
               camera |-> [offset |-> <<0, 0>>, zoom |-> 0],
               fractal_tree_angle |-> 0,
               fractal_tree_start_length |-> 0] : ws \in WindowSizes}

InitRest ==
    /\ window = "none"
    /\ created = [r \in Resources |-> 0]
    /\ released = [r \in Resources |-> 0]
    /\ targetFPS = 0
    /\ target = "none"
    /\ cameraOn = FALSE
    /\ shaderOn = FALSE
    /\ mstack = <<Identity>>
    /\ calls = <<>>
    /\ tests = 0
    /\ polls = 0
    /\ frames = 0
    /\ keys = {}
    /\ dt = 0
    /\ before = [offset |-> <<0, 0>>, angle |-> 0]
    /\ upSum = 0
    /\ downSum = 0
    /\ onlyUp = TRUE
    /\ delta = <<0, 0>>
    /\ cstack = <<>>
    /\ threshold = Threshold * LenScale
    /\ segments = 0
    /\ frameStart = <<Identity>>
    /\ texture = <<0, 0>>

Init ==
    /\ pc = "StartGame"
    /\ InitGame
    /\ InitRest

----------------------------------------------------------------------------
(* StartGame *)

InitWindow ==
    /\ pc = "StartGame"
    /\ window' = "open"
    /\ created' = [created EXCEPT !["window"] = @ + 1]
    /\ pc' = "SetupCamera"
    /\ UNCHANGED <<game, released, targetFPS, texture, renderVars, countVars, inputVars, treeVars>>

SetupCamera ==
    /\ pc = "SetupCamera"
    /\ game' = [game EXCEPT !.camera.zoom = ZoomTenths]
    /\ pc' = "SetupValues"
    /\ UNCHANGED <<resVars, renderVars, countVars, inputVars, treeVars>>

SetupValues ==
    /\ pc = "SetupValues"
    /\ game' = [game EXCEPT !.fractal_tree_angle = Fixed(InitialAngle),
                            !.fractal_tree_start_length = StartLength * LenScale]
    /\ pc' = "SetTargetFPS"
    /\ UNCHANGED <<resVars, renderVars, countVars, inputVars, treeVars>>

SetTargetFPS ==
    /\ pc = "SetTargetFPS"
    /\ targetFPS' = TargetFPS
    /\ pc' = "LoadShader"
    /\ UNCHANGED <<game, window, created, released, texture, renderVars, countVars, inputVars, treeVars>>

----------------------------------------------------------------------------
(* RunGame: resources *)

LoadShader ==
    /\ pc = "LoadShader"
    /\ created' = [created EXCEPT !["shader"] = @ + 1]
    /\ pc' = "LoadRenderTexture"
    /\ UNCHANGED <<game, window, released, targetFPS, texture, renderVars, countVars, inputVars, treeVars>>

LoadRenderTexture ==
    /\ pc = "LoadRenderTexture"
    /\ created' = [created EXCEPT !["framebuffer"] = @ + 1]
    /\ texture' = game.window_size
    /\ pc' = "while"
    /\ UNCHANGED <<game, window, released, targetFPS, renderVars, countVars, inputVars, treeVars>>

(* while(!WindowShouldClose()) *)
WindowShouldClose ==
    /\ pc = "while"
    /\ tests' = tests + 1
    /\ \E close \in BOOLEAN :
          /\ ~close => tests < MaxFrames
          /\ pc' = IF close THEN "CloseWindow" ELSE "InputGame"
    /\ UNCHANGED <<game, resVars, renderVars, polls, frames, inputVars, treeVars>>

(* Mutant of CloseWindow: the window is closed inside the loop *)
CloseWindowInLoop ==
    /\ pc = "CloseWindow"
    /\ window' = "closed"
    /\ released' = [released EXCEPT !["window"] = @ + 1]
    /\ pc' = IF tests < MaxFrames THEN "while" ELSE "return"
    /\ UNCHANGED <<game, created, targetFPS, texture, renderVars, countVars, inputVars, treeVars>>

CloseWindow ==
    /\ pc = "CloseWindow"
    /\ window' = "closed"
    /\ released' = [released EXCEPT !["window"] = @ + 1]
    /\ pc' = "return"
    /\ UNCHANGED <<game, created, targetFPS, texture, renderVars, countVars, inputVars, treeVars>>

(* EndGame has an empty body *)
EndGame ==
    /\ pc = "return"
    /\ pc' = "end"
    /\ UNCHANGED <<game, resVars, renderVars, countVars, inputVars, treeVars>>

----------------------------------------------------------------------------
(* InputGame *)

(* Mutant of MoveVector: both keys of a pair are tested, the effects add up *)
MoveVectorAdditive(k) ==
    << (IF "A" \in k THEN 1 ELSE 0) - (IF "D" \in k THEN 1 ELSE 0),
       (IF "W" \in k THEN 1 ELSE 0) - (IF "S" \in k THEN 1 ELSE 0) >>

(* Vector2 moveVector = {0}; if D x-- else if A x++; if S y-- else if W y++ *)
MoveVector(k) ==
    << IF "D" \in k THEN 0 - 1 ELSE IF "A" \in k THEN 0 + 1 ELSE 0,
       IF "S" \in k THEN 0 - 1 ELSE IF "W" \in k THEN 0 + 1 ELSE 0 >>

(* Mutant of AngleInput: the angle is clamped to 0..90 degrees *)
AngleInputClamped(a, k, t) ==
    LET raw == IF "UP" \in k THEN a + AngleRate * t
               ELSE IF "DOWN" \in k THEN a + (0 - AngleRate) * t
               ELSE a
    IN  IF raw > Fixed(90) THEN Fixed(90) ELSE IF raw < 0 THEN 0 ELSE raw

(* if UP angle += 10.0f * GetFrameTime(); else if DOWN angle += -10.0f * GetFrameTime() *)
AngleInput(a, k, t) ==
    IF "UP" \in k THEN a + AngleRate * t
    ELSE IF "DOWN" \in k THEN a + (0 - AngleRate) * t
    ELSE a

(* The camera offset after the poll.  Vector2Scale takes its argument by value *)
(* and returns the product; the call drops the result, so the vector that is  *)
(* added is the unscaled one, whole pixels.                                   *)
MoveCamera(offset, k, t) ==
    LET moveVector == MoveVector(k)
        cameraSpeed == CameraSpeed
        dropped == Vector2Scale(moveVector, cameraSpeed * t)
    IN  Vector2Add(offset, <<Fixed(moveVector[1]), Fixed(moveVector[2])>>)

(* Mutant of InputGame: the arrow keys write the start length, not the angle *)
InputGameWrongField(g, k, t) ==
    [g EXCEPT !.camera.offset = MoveCamera(@, k, t),
              !.fractal_tree_start_length = AngleInput(@, k, t)]

InputGame(g, k, t) ==
    [g EXCEPT !.camera.offset = MoveCamera(@, k, t),
              !.fractal_tree_angle = AngleInput(@, k, t)]

(* The poll of a loop iteration: the keys held and the frame time are inputs *)
InputGameStep ==
    /\ pc = "InputGame"
    /\ \E k \in SUBSET Keys, t \in FrameTimes : game' = InputGame(game, k, t)
    /\ polls' = polls + 1
    /\ pc' = "BeginTextureMode"
    /\ UNCHANGED <<resVars, renderVars, tests, frames, inputVars, treeVars>>

----------------------------------------------------------------------------
(* RunGame: the frame *)

(* Mutant of ShrinkLength: the children get the caller's length *)
ShrinkLengthNone(len) == len

ShrinkLength(len) == (len * ShrinkNum) \div ShrinkDen

(* Segments a call RecursiveTreeDraw(len, ..) draws: its own and its two      *)
(* children's, which get the same length and so draw the same number.         *)
RECURSIVE TreeSegments(_, _)
TreeSegments(len, thr) ==
    IF len < thr THEN 0 ELSE 1 + 2 * TreeSegments(ShrinkLength(len), thr)

(* What the call leaves on the transform stack: the translation to the end of *)
(* its own segment, made on the caller's current transform; whatever its      *)
(* children push they pop.                                                    *)
TreeLeaves(s, len, thr) ==
    IF len < thr THEN s ELSE rlTranslatef(s, 0, 0 - len)

SourceRec(tex) == <<0, 0, tex[1], 0 - tex[2]>>

TreeCall(g) ==
    <<"RecursiveTreeDraw", g.fractal_tree_start_length,
      g.fractal_tree_start_length, g.fractal_tree_angle>>

Issue(call) == calls' = Append(calls, call)

BeginTextureMode ==
    /\ pc = "BeginTextureMode"
    /\ target' = "texture"
    /\ calls' = << <<"BeginTextureMode", "framebuffer">> >>
    /\ frameStart' = mstack
    /\ segments' = 0
    /\ pc' = "BeginMode2D"
    /\ UNCHANGED <<game, resVars, cameraOn, shaderOn, mstack, countVars, inputVars, treeVars>>

BeginMode2D ==
    /\ pc = "BeginMode2D"
    /\ cameraOn' = TRUE
    /\ mstack' = SetTop(mstack, << <<"Camera", game.camera.offset, game.camera.zoom>> >>)
    /\ Issue(<<"BeginMode2D", game.camera>>)
    /\ pc' = "ClearSky"
    /\ UNCHANGED <<game, resVars, target, shaderOn, segments, frameStart, countVars, inputVars, treeVars>>

ClearSky ==
    /\ pc = "ClearSky"
    /\ Issue(<<"ClearBackground", "SKYBLUE">>)
    /\ pc' = "rlPushMatrix"
    /\ UNCHANGED <<game, resVars, target, cameraOn, shaderOn, mstack, segments, frameStart, countVars, inputVars, treeVars>>

PushRoot ==
    /\ pc = "rlPushMatrix"
    /\ mstack' = rlPushMatrix(mstack)
    /\ Issue(<<"rlPushMatrix">>)
    /\ pc' = "rlTranslatef"
    /\ UNCHANGED <<game, resVars, target, cameraOn, shaderOn, segments, frameStart, countVars, inputVars, treeVars>>

TranslateRoot ==
    /\ pc = "rlTranslatef"
    /\ mstack' = rlTranslatef(mstack, game.window_size[1], game.window_size[2] * 2)
    /\ Issue(<<"rlTranslatef", game.window_size[1], game.window_size[2] * 2, 0>>)
    /\ pc' = "RecursiveTreeDraw"
    /\ UNCHANGED <<game, resVars, target, cameraOn, shaderOn, segments, frameStart, countVars, inputVars, treeVars>>

(* The whole call RecursiveTreeDraw(len, len, angle) in one step, by its       *)
(* summary: the segments it draws and the transform stack it leaves (SpecTree *)
(* runs the call step by step and checks the summary against it).             *)
RecursiveTreeDraw ==
    /\ pc = "RecursiveTreeDraw"
    /\ segments' = segments + TreeSegments(game.fractal_tree_start_length, threshold)
    /\ mstack' = TreeLeaves(mstack, game.fractal_tree_start_length, threshold)
    /\ Issue(TreeCall(game))
    /\ pc' = "rlPopMatrix"
    /\ UNCHANGED <<game, resVars, target, cameraOn, shaderOn, frameStart, countVars, inputVars, treeVars>>

(* Mutant of PopRoot: the pop after the tree call is missing *)
PopRootMissing ==
    /\ pc = "rlPopMatrix"
    /\ Issue(<<"rlPopMatrix">>)
    /\ pc' = "EndMode2D"
    /\ UNCHANGED <<game, resVars, target, cameraOn, shaderOn, mstack, segments, frameStart, countVars, inputVars, treeVars>>

PopRoot ==
    /\ pc = "rlPopMatrix"
    /\ mstack' = rlPopMatrix(mstack)
    /\ Issue(<<"rlPopMatrix">>)
    /\ pc' = "EndMode2D"
    /\ UNCHANGED <<game, resVars, target, cameraOn, shaderOn, segments, frameStart, countVars, inputVars, treeVars>>

(* Mutant of EndMode2D: the off-screen target is unbound before the camera *)
EndMode2DLate ==
    /\ pc = "EndMode2D"
    /\ target' = "none"
    /\ Issue(<<"EndTextureMode">>)
    /\ pc' = "EndTextureMode"
    /\ UNCHANGED <<game, resVars, cameraOn, shaderOn, mstack, segments, frameStart, countVars, inputVars, treeVars>>

EndMode2D ==
    /\ pc = "EndMode2D"
    /\ cameraOn' = FALSE
    /\ mstack' = SetTop(mstack, Identity)
    /\ Issue(<<"EndMode2D">>)
    /\ pc' = "EndTextureMode"
    /\ UNCHANGED <<game, resVars, target, shaderOn, segments, frameStart, countVars, inputVars, treeVars>>

EndTextureMode ==
    /\ pc = "EndTextureMode"
    /\ target' = "none"
    /\ Issue(<<"EndTextureMode">>)
    /\ pc' = "BeginDrawing"
    /\ UNCHANGED <<game, resVars, cameraOn, shaderOn, mstack, segments, frameStart, countVars, inputVars, treeVars>>

BeginDrawing ==
    /\ pc = "BeginDrawing"
    /\ target' = "screen"
    /\ Issue(<<"BeginDrawing">>)
    /\ pc' = "ClearWhite"
    /\ UNCHANGED <<game, resVars, cameraOn, shaderOn, mstack, segments, frameStart, countVars, inputVars, treeVars>>

ClearWhite ==
    /\ pc = "ClearWhite"
    /\ Issue(<<"ClearBackground", "WHITE">>)
    /\ pc' = "BeginShaderMode"
    /\ UNCHANGED <<game, resVars, target, cameraOn, shaderOn, mstack, segments, frameStart, countVars, inputVars, treeVars>>

(* Mutant of BeginShaderMode: the shader is loaded again in every frame *)
BeginShaderModeReload ==
    /\ pc = "BeginShaderMode"
    /\ shaderOn' = TRUE
    /\ created' = [created EXCEPT !["shader"] = @ + 1]
    /\ Issue(<<"BeginShaderMode", "pp_shader">>)
    /\ pc' = "DrawTextureRec"
    /\ UNCHANGED <<game, window, released, targetFPS, texture, target, cameraOn, mstack, segments, frameStart, countVars, inputVars, treeVars>>

BeginShaderMode ==
    /\ pc = "BeginShaderMode"
    /\ shaderOn' = TRUE
    /\ Issue(<<"BeginShaderMode", "pp_shader">>)
    /\ pc' = "DrawTextureRec"
    /\ UNCHANGED <<game, resVars, target, cameraOn, mstack, segments, frameStart, countVars, inputVars, treeVars>>

DrawTextureRec ==
    /\ pc = "DrawTextureRec"
    /\ Issue(<<"DrawTextureRec", "framebuffer", SourceRec(texture), <<0, 0>>, "WHITE">>)
    /\ pc' = "EndShaderMode"
    /\ UNCHANGED <<game, resVars, target, cameraOn, shaderOn, mstack, segments, frameStart, countVars, inputVars, treeVars>>

EndShaderMode ==
    /\ pc = "EndShaderMode"
    /\ shaderOn' = FALSE
    /\ Issue(<<"EndShaderMode">>)
    /\ pc' = "EndDrawing"
    /\ UNCHANGED <<game, resVars, target, cameraOn, mstack, segments, frameStart, countVars, inputVars, treeVars>>

EndDrawing ==
    /\ pc = "EndDrawing"
    /\ target' = "none"
    /\ Issue(<<"EndDrawing">>)
    /\ frames' = frames + 1
    /\ pc' = "while"
    /\ UNCHANGED <<game, resVars, cameraOn, shaderOn, mstack, segments, frameStart, tests, polls, inputVars, treeVars>>

----------------------------------------------------------------------------
(* The program *)

Next ==
    \/ InitWindow \/ SetupCamera \/ SetupValues \/ SetTargetFPS
    \/ LoadShader \/ LoadRenderTexture
    \/ WindowShouldClose \/ InputGameStep
    \/ BeginTextureMode \/ BeginMode2D \/ ClearSky \/ PushRoot \/ TranslateRoot
    \/ RecursiveTreeDraw
    \/ PopRoot \/ EndMode2D \/ EndTextureMode
    \/ BeginDrawing \/ ClearWhite \/ BeginShaderMode \/ DrawTextureRec
    \/ EndShaderMode \/ EndDrawing
    \/ CloseWindow \/ EndGame

Spec == Init /\ [][Next]_vars

----------------------------------------------------------------------------
(* The input handler on its own: InputGame applied poll after poll to the      *)
(* state RunGame first calls it in, with the inputs and the values it read     *)
(* and computed kept for inspection.                                           *)

StartedGame(ws) ==
    [window_size |-> ws, title |-> "title",
     camera |-> [offset |-> <<0, 0>>, zoom |-> ZoomTenths],
     fractal_tree_angle |-> Fixed(InitialAngle),
     fractal_tree_start_length |-> StartLength * LenScale]

InitInput ==
    /\ pc = "InputGame"
    /\ \E ws \in WindowSizes : game = StartedGame(ws) /\ texture = ws
    /\ window = "open"
    /\ created = [r \in Resources |-> 1]
    /\ released = [r \in Resources |-> 0]
    /\ targetFPS = TargetFPS
    /\ target = "none"
    /\ cameraOn = FALSE
    /\ shaderOn = FALSE
    /\ mstack = <<Identity>>
    /\ calls = <<>>
    /\ tests = 1
    /\ polls = 0
    /\ frames = 0
    /\ keys = {}
    /\ dt = 0
    /\ before = [offset |-> <<0, 0>>, angle |-> Fixed(InitialAngle)]
    /\ upSum = 0
    /\ downSum = 0
    /\ onlyUp = TRUE
    /\ delta = <<0, 0>>
    /\ cstack = <<>>
    /\ threshold = Threshold * LenScale
    /\ segments = 0
    /\ frameStart = <<Identity>>

PollInput ==
    /\ pc = "InputGame"
    /\ polls < MaxPolls
    /\ \E k \in SUBSET Keys, t \in FrameTimes :
          /\ game' = InputGame(game, k, t)
          /\ keys' = k
          /\ dt' = t
          /\ delta' = MoveVector(k)
          /\ upSum' = IF "UP" \in k THEN upSum + t ELSE upSum
          /\ downSum' = IF "DOWN" \in k /\ "UP" \notin k THEN downSum + t ELSE downSum
          /\ onlyUp' = (onlyUp /\ k = {"UP"})
    /\ before' = [offset |-> game.camera.offset, angle |-> game.fractal_tree_angle]
    /\ polls' = polls + 1
    /\ UNCHANGED <<pc, resVars, renderVars, tests, frames, treeVars>>

NextInput == PollInput

SpecInput == InitInput /\ [][NextInput]_vars

----------------------------------------------------------------------------
(* The tree generator step by step, inside one frame.                          *)
(*                                                                             *)
(* RecursiveTreeDraw(len, base, angle):                                        *)
(*   1. len below the termination length: return, drawing nothing;            *)
(*   2. draw the segment from the origin along the local up axis;             *)
(*   3. translate to its far end;                                             *)
(*   4. for +angle, then for -angle: push, rotate, recurse with the shrunk    *)
(*      length, pop.                                                          *)
(* cstack holds one record per active call: its length and where it stands.   *)
(* A step runs the body from where the call stands to its next recursive call *)
(* or its return: TreeBase is 1; TreeFirst is 2, 3 and the first call of 4;   *)
(* TreeSecond the pop after it and the second call; TreeReturn the last pop.  *)

Activation(len) == [len |-> len, at |-> "enter"]
Inner == cstack[Len(cstack)]
Return == SubSeq(cstack, 1, Len(cstack) - 1)
Stand(at) == [cstack EXCEPT ![Len(cstack)].at = at]
Recurse(at) == Append(Stand(at), Activation(ShrinkLength(Inner.len)))

TreeBegin ==
    /\ pc = "RecursiveTreeDraw"
    /\ cstack' = <<Activation(game.fractal_tree_start_length)>>
    /\ Issue(TreeCall(game))
    /\ pc' = "InTree"
    /\ UNCHANGED <<game, resVars, target, cameraOn, shaderOn, mstack, segments, frameStart, countVars, inputVars, threshold>>

TreeBase ==
    /\ pc = "InTree"
    /\ cstack # <<>>
    /\ Inner.at = "enter"
    /\ Inner.len < threshold
    /\ cstack' = Return
    /\ UNCHANGED <<pc, game, resVars, renderVars, countVars, inputVars, threshold>>

TreeFirst ==
    /\ pc = "InTree"
    /\ cstack # <<>>
    /\ Inner.at = "enter"
    /\ ~(Inner.len < threshold)
    /\ segments' = segments + 1
    /\ mstack' = rlRotatef(rlPushMatrix(rlTranslatef(mstack, 0, 0 - Inner.len)),
                           game.fractal_tree_angle)
    /\ cstack' = Recurse("afterFirst")
    /\ UNCHANGED <<pc, game, resVars, target, cameraOn, shaderOn, calls, frameStart, countVars, inputVars, threshold>>

TreeSecond ==
    /\ pc = "InTree"
    /\ cstack # <<>>
    /\ Inner.at = "afterFirst"
    /\ mstack' = rlRotatef(rlPushMatrix(rlPopMatrix(mstack)), 0 - game.fractal_tree_angle)
    /\ cstack' = Recurse("afterSecond")
    /\ UNCHANGED <<pc, game, resVars, target, cameraOn, shaderOn, calls, segments, frameStart, countVars, inputVars, threshold>>

TreeReturn ==
    /\ pc = "InTree"
    /\ cstack # <<>>
    /\ Inner.at = "afterSecond"
    /\ mstack' = rlPopMatrix(mstack)
    /\ cstack' = Return
    /\ UNCHANGED <<pc, game, resVars, target, cameraOn, shaderOn, calls, segments, frameStart, countVars, inputVars, threshold>>

TreeEnd ==
    /\ pc = "InTree"
    /\ cstack = <<>>
    /\ pc' = "rlPopMatrix"
    /\ UNCHANGED <<game, resVars, renderVars, countVars, inputVars, treeVars>>

(* Draw(L, L, angle) for termination lengths T and start lengths L > T: the   *)
(* program's own pair and every small pair.                                   *)
TreeInputs ==
    {<<StartLength * LenScale, Threshold * LenScale>>}
      \cup {<<l * LenScale, t * LenScale>> : l \in 1..MaxLen, t \in 1..MaxThreshold}

InitTree ==
    /\ pc = "BeginTextureMode"
    /\ \E in \in TreeInputs :
          /\ in[1] > in[2]
          /\ game = [StartedGame(DefaultWindow) EXCEPT !.fractal_tree_start_length = in[1]]
          /\ threshold = in[2]
    /\ texture = DefaultWindow
    /\ window = "open"
    /\ created = [r \in Resources |-> 1]
    /\ released = [r \in Resources |-> 0]
    /\ targetFPS = TargetFPS
    /\ target = "none"
    /\ cameraOn = FALSE
    /\ shaderOn = FALSE
    /\ mstack = <<Identity>>
    /\ calls = <<>>
    /\ tests = 1
    /\ polls = 1
    /\ frames = 0
    /\ keys = {}
    /\ dt = 0
    /\ before = [offset |-> <<0, 0>>, angle |-> Fixed(InitialAngle)]
    /\ upSum = 0
    /\ downSum = 0
    /\ onlyUp = TRUE
    /\ delta = <<0, 0>>
    /\ cstack = <<>>
    /\ segments = 0
    /\ frameStart = <<Identity>>

NextTree ==
    \/ BeginTextureMode \/ BeginMode2D \/ ClearSky \/ PushRoot \/ TranslateRoot
    \/ TreeBegin \/ TreeBase \/ TreeFirst \/ TreeSecond \/ TreeReturn \/ TreeEnd
    \/ PopRoot \/ EndMode2D \/ EndTextureMode
    \/ BeginDrawing \/ ClearWhite \/ BeginShaderMode \/ DrawTextureRec
    \/ EndShaderMode \/ EndDrawing

(* One thread runs the frame to its end: a step that can be taken is taken.   *)
SpecTree == InitTree /\ [][NextTree]_vars /\ WF_vars(NextTree)

----------------------------------------------------------------------------
(* Phases of the loop driver *)

StartupPcs == {"StartGame", "SetupCamera", "SetupValues", "SetTargetFPS",
               "LoadShader", "LoadRenderTexture"}
FramePcs == {"BeginTextureMode", "BeginMode2D", "ClearSky", "rlPushMatrix",
             "rlTranslatef", "RecursiveTreeDraw", "InTree", "rlPopMatrix",
             "EndMode2D", "EndTextureMode", "BeginDrawing", "ClearWhite",
             "BeginShaderMode", "DrawTextureRec", "EndShaderMode", "EndDrawing"}
Uninitialized == pc \in StartupPcs
Running == pc \in {"while", "InputGame"} \cup FramePcs
Closing == pc = "CloseWindow"
Closed == pc \in {"return", "end"}

----------------------------------------------------------------------------
(* C1: the loop driver is one-shot, Uninitialized -> Running -> Closed.       *)
(* Running is entered only with the window created, zoom and tree parameters  *)
(* set, the frame rate capped and both resources loaded; every iteration is   *)
(* one test of the close signal, then one poll, then one complete frame; and  *)
(* once the loop is left nothing is polled or rendered and neither Running    *)
(* nor Uninitialized is entered again.                                        *)

C1_Entered ==
    Running =>
        /\ window = "open"
        /\ created["window"] = 1
        /\ game.camera.zoom = 5
        /\ game.fractal_tree_start_length = 350 * LenScale
        /\ targetFPS = 60
        /\ created["shader"] >= 1
        /\ created["framebuffer"] >= 1
        /\ (tests = 0 => game.fractal_tree_angle = 30 * 60)

C1_Counts ==
    /\ Uninitialized => tests = 0 /\ polls = 0 /\ frames = 0
    /\ pc = "while" => polls = tests /\ frames = tests
    /\ pc = "InputGame" => tests = polls + 1 /\ frames = polls
    /\ pc \in FramePcs => polls = tests /\ frames = tests - 1
    /\ (Closing \/ Closed) => polls = tests - 1 /\ frames = tests - 1
    /\ (pc = "while" /\ frames > 0) => Len(calls) = 15 /\ calls[15] = <<"EndDrawing">>

C1_Step ==
    /\ ~Uninitialized => ~Uninitialized'
    /\ (Closing \/ Closed) => (Closed' /\ polls' = polls /\ frames' = frames
                                /\ tests' = tests /\ calls' = calls)
    /\ tests' # tests => pc = "while"
    /\ polls' # polls => (pc = "InputGame" /\ pc' = "BeginTextureMode")

C1_Lifecycle == [](C1_Entered /\ C1_Counts) /\ [][C1_Step]_vars

C1_Witness == Closed /\ polls = 2 /\ frames = 2

----------------------------------------------------------------------------
(* C2: within a frame the calls are issued in exactly the order               *)
(* BeginTextureMode, BeginMode2D, ClearBackground(SKYBLUE), rlPushMatrix,     *)
(* rlTranslatef, RecursiveTreeDraw(length, length, angle), rlPopMatrix,       *)
(* EndMode2D, EndTextureMode, BeginDrawing, ClearBackground(WHITE),           *)
(* BeginShaderMode, DrawTextureRec with negated source height, EndShaderMode, *)
(* EndDrawing; the camera is on only while the off-screen target is bound,    *)
(* and the tree is drawn with the off-screen target bound and no shader.      *)

C2_Expected ==
    << <<"BeginTextureMode", "framebuffer">>,
       <<"BeginMode2D", game.camera>>,
       <<"ClearBackground", "SKYBLUE">>,
       <<"rlPushMatrix">>,
       <<"rlTranslatef", game.window_size[1], 2 * game.window_size[2], 0>>,
       <<"RecursiveTreeDraw", game.fractal_tree_start_length,
         game.fractal_tree_start_length, game.fractal_tree_angle>>,
       <<"rlPopMatrix">>,
       <<"EndMode2D">>,
       <<"EndTextureMode">>,
       <<"BeginDrawing">>,
       <<"ClearBackground", "WHITE">>,
       <<"BeginShaderMode", "pp_shader">>,
       <<"DrawTextureRec", "framebuffer",
         <<0, 0, game.window_size[1], 0 - game.window_size[2]>>, <<0, 0>>, "WHITE">>,
       <<"EndShaderMode">>,
       <<"EndDrawing">> >>

C2_Issued ==
    [p \in FramePcs \ {"BeginTextureMode"} |->
        CASE p = "BeginMode2D" -> 1
          [] p = "ClearSky" -> 2
          [] p = "rlPushMatrix" -> 3
          [] p = "rlTranslatef" -> 4
          [] p = "RecursiveTreeDraw" -> 5
          [] p = "InTree" -> 6
          [] p = "rlPopMatrix" -> 6
          [] p = "EndMode2D" -> 7
          [] p = "EndTextureMode" -> 8
          [] p = "BeginDrawing" -> 9
          [] p = "ClearWhite" -> 10
          [] p = "BeginShaderMode" -> 11
          [] p = "DrawTextureRec" -> 12
          [] p = "EndShaderMode" -> 13
          [] p = "EndDrawing" -> 14]

C2_FrameOrder ==
    /\ pc \in DOMAIN C2_Issued => calls = SubSeq(C2_Expected, 1, C2_Issued[pc])
    /\ (pc = "while" /\ frames > 0) => calls = C2_Expected
    /\ cameraOn => target = "texture"
    /\ shaderOn => target = "screen"
    /\ pc \in {"RecursiveTreeDraw", "InTree"} => (target = "texture" /\ cameraOn /\ ~shaderOn)

C2_Witness == pc = "while" /\ frames = 2 /\ Len(calls) = 15 /\ segments > 0

----------------------------------------------------------------------------
(* C3: the shader and the off-screen target are each created once, with the   *)
(* window open and before the first iteration, and in every Running state     *)
(* both are loaded: neither is released or created again inside the loop.     *)

C3_Loaded ==
    /\ \A r \in {"shader", "framebuffer"} :
          /\ created[r] <= 1
          /\ Running => (created[r] = 1 /\ released[r] = 0)
    /\ Running => texture = game.window_size

C3_Step ==
    /\ \A r \in {"shader", "framebuffer"} :
          created'[r] # created[r] => (window = "open" /\ tests = 0 /\ created[r] = 0)
    /\ (Running /\ Running') => (created' = created /\ released' = released)

C3_ResourcesValid == []C3_Loaded /\ [][C3_Step]_vars

C3_Witness == pc = "EndShaderMode" /\ frames = 1 /\ created["shader"] = 1 /\ created["framebuffer"] = 1

----------------------------------------------------------------------------
(* C4: when Closed is reached, the window, the shader and the off-screen      *)
(* target have each been released exactly once.                               *)

C4_AllReleasedOnce ==
    Closed => \A r \in Resources : created[r] = 1 /\ released[r] = 1

----------------------------------------------------------------------------
(* C5: each opposing key pair is resolved first-match-wins: D gives -1        *)
(* whether or not A is held, A alone +1, neither 0; likewise S over W; and    *)
(* the angle changes as for UP alone whenever UP is held, as for DOWN only    *)
(* when UP is not, and not at all when neither is.                            *)

C5_FirstMatchWins ==
    polls > 0 =>
        /\ "D" \in keys => delta[1] = -1
        /\ ("D" \notin keys /\ "A" \in keys) => delta[1] = 1
        /\ ("D" \notin keys /\ "A" \notin keys) => delta[1] = 0
        /\ "S" \in keys => delta[2] = -1
        /\ ("S" \notin keys /\ "W" \in keys) => delta[2] = 1
        /\ ("S" \notin keys /\ "W" \notin keys) => delta[2] = 0
        /\ "UP" \in keys => game.fractal_tree_angle = before.angle + 10 * dt
        /\ ("UP" \notin keys /\ "DOWN" \in keys) => game.fractal_tree_angle = before.angle - 10 * dt
        /\ ("UP" \notin keys /\ "DOWN" \notin keys) => game.fractal_tree_angle = before.angle

C5_Witness == polls > 0 /\ keys = Keys /\ dt > 0 /\ delta = <<-1, -1>>

----------------------------------------------------------------------------
(* C6: after any polls from angle 30 the angle is 30 + 10 x (time with UP     *)
(* held) - 10 x (time with DOWN held and UP not), with no clamping; holding   *)
(* only UP for half a second in total gives 35 and leaves the offset alone.   *)

C6_AngleSum ==
    /\ game.fractal_tree_angle = 30 * 60 + 10 * upSum - 10 * downSum
    /\ (polls > 0 /\ dt = 0) => game.fractal_tree_angle = before.angle
    /\ (onlyUp /\ upSum = 30) =>
          (game.fractal_tree_angle = 35 * 60 /\ game.camera.offset = <<0, 0>>)

C6_Witness == polls = 2 /\ upSum = 2 * LongStall /\ game.fractal_tree_angle > 90 * 60

----------------------------------------------------------------------------
(* C7: a poll moves the camera offset by delta x 10 x elapsed time.           *)

C7_ScaledMove ==
    polls > 0 =>
        game.camera.offset = <<before.offset[1] + delta[1] * 10 * dt,
                               before.offset[2] + delta[2] * 10 * dt>>

----------------------------------------------------------------------------
(* C9: in every Running state the zoom is 0.5 and the start length 350; a     *)
(* poll changes nothing of the game state but the camera offset and the       *)
(* angle, W/A/S/D alone never change the angle, the arrow keys alone never    *)
(* change the offset, and a render frame leaves the game state as it was.     *)

C9_Fixed ==
    /\ Running => (game.camera.zoom = 5 /\ game.fractal_tree_start_length = 350 * LenScale)
    /\ pc = "InputGame" =>
          \A k \in SUBSET Keys, t \in FrameTimes :
             /\ k \subseteq {"W", "A", "S", "D"} =>
                   InputGame(game, k, t).fractal_tree_angle = game.fractal_tree_angle
             /\ k \subseteq {"UP", "DOWN"} =>
                   InputGame(game, k, t).camera.offset = game.camera.offset

C9_Step ==
    /\ pc = "InputGame" =>
          game' = [game EXCEPT !.camera.offset = game'.camera.offset,
                               !.fractal_tree_angle = game'.fractal_tree_angle]
    /\ pc \in FramePcs => game' = game
    /\ pc = "while" => game' = game

C9_FrameEffect == []C9_Fixed /\ [][C9_Step]_vars

C9_Witness ==
    /\ pc = "while"
    /\ frames = 2
    /\ game.camera.offset # <<0, 0>>
    /\ game.fractal_tree_angle # 30 * 60

----------------------------------------------------------------------------
(* C8: for every termination length T and start length L > T the call          *)
(* Draw(L, L, angle) terminates: every nested call has a strictly shorter      *)
(* length than its caller, at most three quarters of it, only calls at or      *)
(* above T recurse, and a frame that reaches the tree call goes on to pop the  *)
(* root transform and unbind the camera.                                       *)

C8_Shrinks ==
    \A i \in 1..Len(cstack) :
        /\ cstack[i].len >= 0
        /\ i < Len(cstack) =>
              /\ cstack[i].len >= threshold
              /\ cstack[i + 1].len < cstack[i].len
              /\ 4 * cstack[i + 1].len <= 3 * cstack[i].len

----------------------------------------------------------------------------
(* C10: the transform stack is used in balance.  Every call is entered with   *)
(* the root transform followed, for each call on the path down to it, by that *)
(* call's translation and the one rotation of the child taken: the second     *)
(* child gets -angle on the very transform the first got +angle on, with no   *)
(* rotation of the first left in it.  A call whose child has returned finds   *)
(* its own transform right under the child's.  The stack is exactly as deep   *)
(* as the pushes still open, after RunGame's pop the camera transform is      *)
(* current again at the depth the frame began with, and from there to the end *)
(* of the frame the stack is what it was when the frame began.                *)

C10_RootTransform ==
    << <<"Camera", game.camera.offset, game.camera.zoom>>,
       <<"T", game.window_size[1], 2 * game.window_size[2]>> >>

RECURSIVE C10_EntryTransform(_)
C10_EntryTransform(i) ==
    IF i = 1 THEN C10_RootTransform
    ELSE C10_EntryTransform(i - 1)
           \o << <<"T", 0, 0 - cstack[i - 1].len>>,
                 <<"R", IF cstack[i - 1].at = "afterFirst"
                        THEN game.fractal_tree_angle
                        ELSE 0 - game.fractal_tree_angle>> >>

C10_OwnTransform ==
    Append(C10_EntryTransform(Len(cstack)), <<"T", 0, 0 - Inner.len>>)

C10_OpenPushes ==
    Cardinality({i \in DOMAIN cstack : cstack[i].at \in {"afterFirst", "afterSecond"}})

C10_CameraTransform == << <<"Camera", game.camera.offset, game.camera.zoom>> >>

C10_Balanced ==
    /\ (pc = "InTree" /\ cstack # <<>> /\ Inner.at = "enter") =>
          Top(mstack) = C10_EntryTransform(Len(cstack))
    /\ (pc = "InTree" /\ cstack # <<>> /\ Inner.at \in {"afterFirst", "afterSecond"}) =>
          mstack[Len(mstack) - 1] = C10_OwnTransform
    /\ pc = "InTree" => Len(mstack) = Len(frameStart) + 1 + C10_OpenPushes
    /\ pc = "rlPopMatrix" =>
          /\ Len(mstack) = Len(frameStart) + 1
          /\ mstack[Len(mstack) - 1] = C10_CameraTransform
          /\ mstack = TreeLeaves(SubSeq(mstack, 1, Len(mstack) - 1) \o
                                   << Append(C10_CameraTransform,
                                             <<"T", game.window_size[1], 2 * game.window_size[2]>>) >>,
                                 game.fractal_tree_start_length, threshold)
          /\ segments = TreeSegments(game.fractal_tree_start_length, threshold)
    /\ pc = "EndMode2D" =>
          (Len(mstack) = Len(frameStart) /\ Top(mstack) = C10_CameraTransform)
    /\ (pc \in {"EndTextureMode", "BeginDrawing", "ClearWhite", "BeginShaderMode",
                "DrawTextureRec", "EndShaderMode", "EndDrawing"}
        \/ (pc = "while" /\ frames > 0)) =>
          mstack = frameStart

C10_Witness ==
    /\ pc = "while"
    /\ frames = 1
    /\ segments >= 31
    /\ mstack = frameStart

====
